---- MODULE Spec2Model ----
(***************************************************************************)
(* The dog-breed classification web application (app.py): the detection    *)
(* pipeline main_algorithm and the three Flask request handlers index      *)
(* ("/"), uploaded_images ("/results") and predictions ("/predictions"),   *)
(* over the per-browser session and the one shared upload directory.       *)
(*                                                                         *)
(* A handler runs to completion before the next request is handled, so     *)
(* each request is one action.  The pretrained networks are external: an   *)
(* image is modelled by what they report for it (number of faces found by  *)
(* the cascade, argmax class of ResNet50, argmax class of the breed head). *)
(* Uploaded files are images the "photos" upload set accepts, and the      *)
(* upload directory exists and holds regular files only.                   *)
(***************************************************************************)
EXTENDS Integers, Sequences, FiniteSets, TLC

\* ------------------------------------------------------------------ bounds

\* Most files carried by one POST request.
MaxFiles == 2

\* ------------------------------------------------------- program constants

DogClassLow == 151
DogClassHigh == 268
NumBreeds == 133

\* ------------------------------------------------------------------ inputs

Sessions == {"A", "B"}

\* Images, by what the pretrained models report for them: the number of
\* faces the cascade finds, the argmax class of ResNet50 and the argmax
\* class of the breed head.
FaceOnly   == [faces |-> 1, cls |-> 150, argmax |-> 0]
FaceAndDog == [faces |-> 2, cls |-> 151, argmax |-> 57]
DogOnly    == [faces |-> 0, cls |-> 268, argmax |-> 132]
Neither    == [faces |-> 0, cls |-> 269, argmax |-> 57]

Images == {FaceOnly, FaceAndDog, DogOnly, Neither}

\* The parts a multipart upload is made of: the form field carrying the
\* file, the name the browser gives it, and the image.  Two parts may share
\* a field, or a file name.
Files ==
  { [key |-> "file[0]", filename |-> "a.jpg", img |-> FaceOnly],
    [key |-> "file[1]", filename |-> "a.jpg", img |-> DogOnly],
    [key |-> "file[1]", filename |-> "b.jpg", img |-> FaceAndDog],
    [key |-> "file[0]", filename |-> "b.jpg", img |-> Neither] }

RequestFiles == UNION { [1..n -> Files] : n \in 0..MaxFiles }

\* --------------------------------------------------------------- the state

VARIABLES
  dir,     \* the upload directory: file name -> image stored under it
  sess,    \* session id -> the session: has it the "file_urls" key, and
           \* the list under it
  req,     \* the request handled last
  resp     \* the response to it, with what the handler did

vars == <<dir, sess, req, resp>>

\* A session without the "file_urls" key, and one holding a list under it.
NoKey == [has_key |-> FALSE, file_urls |-> <<>>]

WithKey(file_urls) == [has_key |-> TRUE, file_urls |-> file_urls]

EmptyDir == <<>>

\* ------------------------------------------------------ detection pipeline

face_detector(img) == img.faces > 0

dog_detector(img) == (img.cls <= DogClassHigh) /\ (img.cls >= DogClassLow)

dog_names == [i \in 0..(NumBreeds - 1) |-> <<"breed", i>>]

predict_breed(img) == dog_names[img.argmax]

HumanMsg(breed) ==
  <<"Looks like a human! If this were a dog, though, I would guess a ", breed>>

DogMsg(breed) == <<"Looks like a dog! Perhaps a ", breed>>

NoIdeaMsg ==
  <<"Well...I have now idea what this is. Apologies. Please try another image.">>

\* A faulty variant of main_algorithm: the dog check first.
main_algorithm_dog_first(img) ==
  IF dog_detector(img)
    THEN [result |-> DogMsg(predict_breed(img)),
          calls  |-> <<"dog_detector", "predict_breed">>]
    ELSE IF face_detector(img)
      THEN [result |-> HumanMsg(predict_breed(img)),
            calls  |-> <<"dog_detector", "face_detector", "predict_breed">>]
      ELSE [result |-> NoIdeaMsg,
            calls  |-> <<"dog_detector", "face_detector">>]

\* A faulty variant of main_algorithm: the breed predicted before the checks.
main_algorithm_eager_breed(img) ==
  IF face_detector(img)
    THEN [result |-> HumanMsg(predict_breed(img)),
          calls  |-> <<"predict_breed", "face_detector">>]
    ELSE IF dog_detector(img)
      THEN [result |-> DogMsg(predict_breed(img)),
            calls  |-> <<"predict_breed", "face_detector", "dog_detector">>]
      ELSE [result |-> NoIdeaMsg,
            calls  |-> <<"predict_breed", "face_detector", "dog_detector">>]

\* The message returned, and the calls made to produce it, in order.
main_algorithm(img) ==
  IF face_detector(img)
    THEN [result |-> HumanMsg(predict_breed(img)),
          calls  |-> <<"face_detector", "predict_breed">>]
    ELSE IF dog_detector(img)
      THEN [result |-> DogMsg(predict_breed(img)),
            calls  |-> <<"face_detector", "dog_detector", "predict_breed">>]
      ELSE [result |-> NoIdeaMsg,
            calls  |-> <<"face_detector", "dog_detector">>]

\* ---------------------------------------------------------------- uploads

\* A stored file's name: the name asked for, and the count photos.save put
\* behind it to avoid a file already there (0: none, n: "<name>_n").
StoredName(filename, count) == <<filename, count>>

\* photos.url(filename)
Url(name) == <<"/_uploads/photos/", name>>

\* The name photos.save stores a file under in directory d.
RECURSIVE resolve_conflict(_, _, _)
resolve_conflict(d, filename, count) ==
  IF StoredName(filename, count) \in DOMAIN d
    THEN resolve_conflict(d, filename, count + 1)
    ELSE StoredName(filename, count)

save_name(d, file) == resolve_conflict(d, file.filename, 0)

\* photos.save(file, name=file.filename): the directory afterwards.
photos_save(d, file) ==
  LET name == save_name(d, file)
  IN  [n \in DOMAIN d \cup {name} |-> IF n = name THEN file.img ELSE d[n]]

\* "for f in request.files: file = request.files.get(f)": one file for each
\* distinct field name, the first carried under it, in order of appearance.
form_files(files) ==
  LET first(i) == \A j \in 1..(i - 1) : files[j].key # files[i].key
      F[i \in 0..Len(files)] ==
        IF i = 0 THEN <<>>
        ELSE IF first(i) THEN Append(F[i - 1], files[i]) ELSE F[i - 1]
  IN  F[Len(files)]

\* A faulty variant of upload_loop: each new URL goes to the front.
RECURSIVE upload_loop_prepend(_, _, _, _)
upload_loop_prepend(fs, d, urls, saved) ==
  IF fs = <<>>
    THEN [dir |-> d, file_urls |-> urls, saved |-> saved]
    ELSE LET name == save_name(d, Head(fs))
         IN  upload_loop_prepend(Tail(fs), photos_save(d, Head(fs)),
                                 <<Url(name)>> \o urls, Append(saved, name))

\* The upload loop of index: directory, URL list and saved names after the
\* files fs were saved into d with the list starting as urls.
RECURSIVE upload_loop(_, _, _, _)
upload_loop(fs, d, urls, saved) ==
  IF fs = <<>>
    THEN [dir |-> d, file_urls |-> urls, saved |-> saved]
    ELSE LET name == save_name(d, Head(fs))
         IN  upload_loop(Tail(fs), photos_save(d, Head(fs)),
                         Append(urls, Url(name)), Append(saved, name))

\* A faulty variant of unlink_all: nothing is deleted.
unlink_none(d) == d

\* "[file.unlink() for file in Path('./uploads').iterdir()]"
unlink_all(d) == EmptyDir

\* A faulty variant of reset_file_urls: the list is left as it is.
reset_file_urls_keep(v) == v

\* "if 'file_urls' in session: session['file_urls'] = []"
reset_file_urls(v) == IF v.has_key THEN WithKey(<<>>) ELSE v

\* "if 'file_urls' not in session: session['file_urls'] = []"
init_file_urls(v) == IF ~v.has_key THEN WithKey(<<>>) ELSE v

\* ---------------------------------------------------------------- handlers

Request(s, path, method, files) ==
  [sid |-> s, path |-> path, method |-> method, files |-> files]

Response(kind, file_urls, predictions, runs, unlinked, saved) ==
  [kind |-> kind, file_urls |-> file_urls, predictions |-> predictions,
   runs |-> runs, unlinked |-> unlinked, saved |-> saved]

\* GET / and POST /
index(s, method, files) ==
  LET d0 == unlink_all(dir)
      v0 == reset_file_urls(sess[s])
      unlinked == DOMAIN dir \ DOMAIN d0
  IN  /\ req' = Request(s, "/", method, files)
      /\ IF method = "POST"
           THEN LET up == upload_loop(form_files(files), d0,
                                      init_file_urls(v0).file_urls, <<>>)
                IN  /\ dir' = up.dir
                    /\ sess' = [sess EXCEPT ![s] = WithKey(up.file_urls)]
                    /\ resp' = Response("uploading...", <<>>, <<>>, <<>>,
                                        unlinked, up.saved)
           ELSE /\ dir' = d0
                /\ sess' = [sess EXCEPT ![s] = v0]
                /\ resp' = Response("index.html", <<>>, <<>>, <<>>,
                                    unlinked, <<>>)

\* A faulty variant of results_redirects: only a missing key redirects.
results_redirects_no_key_only(v) == ~v.has_key

\* "if 'file_urls' not in session or session['file_urls'] == []"
results_redirects(v) == ~v.has_key \/ v.file_urls = <<>>

\* GET /results
uploaded_images(s) ==
  /\ req' = Request(s, "/results", "GET", <<>>)
  /\ resp' = IF results_redirects(sess[s])
               THEN Response("redirect /", <<>>, <<>>, <<>>, {}, <<>>)
               ELSE Response("uploaded_images.html", sess[s].file_urls, <<>>,
                             <<>>,
                             {}, <<>>)
  /\ UNCHANGED <<dir, sess>>

\* The orders in which iterdir may yield the files of d: any.
iterdir(d) ==
  { o \in [1..Cardinality(DOMAIN d) -> DOMAIN d] :
      \A i, j \in DOMAIN o : i # j => o[i] # o[j] }

\* A faulty variant of session_lookup: session.get('file_urls', []).
session_lookup_default(v) == [error |-> FALSE, value |-> v.file_urls]

\* session['file_urls']: a KeyError when the key is missing.
session_lookup(v) == [error |-> ~v.has_key, value |-> v.file_urls]

\* A faulty variant of prediction_paths: the session's own files, by its URLs.
prediction_paths_by_url(d, file_urls) ==
  { SelectSeq([i \in DOMAIN file_urls |-> file_urls[i][2]],
              LAMBDA n : n \in DOMAIN d) }

\* img_paths of predictions: every file of the directory, as iterdir
\* yields them; the session's list plays no part.
prediction_paths(d, file_urls) == iterdir(d)

\* GET /predictions
predictions(s) ==
  LET got == session_lookup(sess[s])
  IN  /\ req' = Request(s, "/predictions", "GET", <<>>)
      /\ IF got.error
           THEN /\ resp' = Response("error", <<>>, <<>>, <<>>, {}, <<>>)
                /\ UNCHANGED <<dir, sess>>
           ELSE \E img_paths \in prediction_paths(dir, got.value) :
                  /\ resp' = Response("predictions.html", got.value,
                       [i \in DOMAIN img_paths |->
                          main_algorithm(dir[img_paths[i]]).result],
                       [i \in DOMAIN img_paths |->
                          [img_path |-> img_paths[i],
                           calls |-> main_algorithm(dir[img_paths[i]]).calls]],
                       {}, <<>>)
                  /\ sess' = [sess EXCEPT ![s] = NoKey]
                  /\ UNCHANGED dir

\* ----------------------------------------------------------- specifications

Init ==
  /\ dir = EmptyDir
  /\ sess = [s \in Sessions |-> NoKey]
  /\ req = Request("A", "none", "none", <<>>)
  /\ resp = Response("none", <<>>, <<>>, <<>>, {}, <<>>)

Get(s) == index(s, "GET", <<>>)

Post(s) == \E files \in RequestFiles : index(s, "POST", files)

Next ==
  \E s \in Sessions :
    \/ Get(s)
    \/ Post(s)
    \/ uploaded_images(s)
    \/ predictions(s)

\* Two browsers against the one server.
Spec == Init /\ [][Next]_vars

NextSingle ==
  \/ Get("A")
  \/ Post("A")
  \/ uploaded_images("A")
  \/ predictions("A")

\* One browser, nothing else touching the upload directory.
SpecSingle == Init /\ [][NextSingle]_vars

\* ------------------------------------------------------------------ claims

\* The file a URL names.
NameOf(url) == url[2]

Range(seq) == {seq[i] : i \in DOMAIN seq}

Count(seq, x) == Cardinality({i \in DOMAIN seq : seq[i] = x})

IsIndexStep == req'.path = "/"

\* C1: in a single session, after two files were uploaded, /predictions
\* yields exactly two prediction strings and the i-th is main_algorithm's
\* result for the file the i-th entry of the session's file_urls names.
C1_PredictionsMatchUploadOrder ==
  (resp.kind = "predictions.html" /\ Len(resp.file_urls) = 2) =>
    /\ Len(resp.predictions) = 2
    /\ \A i \in 1..2 :
         resp.predictions[i] =
           main_algorithm(dir[NameOf(resp.file_urls[i])]).result

\* C2: for every image run through main_algorithm the message is the human
\* one (with the predicted breed) exactly when a face is detected, the dog
\* one exactly when no face but a dog is detected, the no-idea one exactly
\* when neither is; the face check comes first and the dog check is made
\* only when it fails.
C2_ThreeOutcomesFaceFirst ==
  resp.kind = "predictions.html" =>
    \A i \in DOMAIN resp.runs :
      LET img   == dir[resp.runs[i].img_path]
          calls == resp.runs[i].calls
          msg   == resp.predictions[i]
          breed == dog_names[img.argmax]
          face  == img.faces > 0
          dog   == img.cls \in DogClassLow..DogClassHigh
      IN  /\ msg \in {HumanMsg(breed), DogMsg(breed), NoIdeaMsg}
          /\ (msg = HumanMsg(breed)) <=> face
          /\ (msg = DogMsg(breed)) <=> (~face /\ dog)
          /\ (msg = NoIdeaMsg) <=> (~face /\ ~dog)
          /\ calls[1] = "face_detector"
          /\ ("dog_detector" \in Range(calls)) <=> ~face

\* A face and a dog in one image: the human message was returned.
C2_Witness ==
  /\ resp.kind = "predictions.html"
  /\ \E i \in DOMAIN resp.runs :
       /\ dir[resp.runs[i].img_path] = FaceAndDog
       /\ resp.predictions[i] = HumanMsg(dog_names[FaceAndDog.argmax])

\* C3: a run of main_algorithm on an image with neither a face nor a dog
\* returns the no-idea message without calling predict_breed; every other
\* run calls predict_breed exactly once.
C3_BreedPredictedOnlyWhenDetected ==
  resp.kind = "predictions.html" =>
    \A i \in DOMAIN resp.runs :
      LET img   == dir[resp.runs[i].img_path]
          calls == resp.runs[i].calls
          found == img.faces > 0 \/ img.cls \in DogClassLow..DogClassHigh
      IN  IF found
            THEN Count(calls, "predict_breed") = 1
            ELSE /\ resp.predictions[i] = NoIdeaMsg
                 /\ Count(calls, "predict_breed") = 0

\* main_algorithm ran on an image with neither a face nor a dog.
C3_Witness ==
  /\ resp.kind = "predictions.html"
  /\ \E i \in DOMAIN resp.runs :
       /\ dir[resp.runs[i].img_path] = Neither
       /\ resp.runs[i].calls = <<"face_detector", "dog_detector">>

\* C4: every request to /, GET or POST, whatever the session holds, deletes
\* every file that was in the upload directory when it began, and does so
\* before it saves anything: what is in the directory afterwards is what the
\* request saved, named as in an empty directory; after GET / it is empty.
C4_IndexPurgesDirectory ==
  [][IsIndexStep =>
       /\ resp'.unlinked = DOMAIN dir
       /\ DOMAIN dir' = Range(resp'.saved)
       /\ Cardinality(DOMAIN dir') = Len(resp'.saved)
       /\ resp'.saved # <<>> => resp'.saved[1][2] = 0
       /\ req'.method = "GET" => DOMAIN dir' = {}]_vars

\* GET / in a session without the key deleted files, and POST / deleted a
\* file of the name it then saved.
C4_Witness ==
  /\ req.path = "/"
  /\ resp.unlinked # {}
  /\ \/ req.method = "GET" /\ ~sess[req.sid].has_key
     \/ req.method = "POST" /\ resp.unlinked \cap DOMAIN dir # {}

\* C5: /results redirects to / when the session has no file_urls key or an
\* empty list and renders the list otherwise; it changes neither the
\* session nor the upload directory.
C5_ResultsRedirectsWhenNothingToShow ==
  [][req'.path = "/results" =>
       LET v == sess[req'.sid]
           nothing == ~v.has_key \/ v.file_urls = <<>>
       IN  /\ nothing => resp'.kind = "redirect /"
           /\ ~nothing =>
                /\ resp'.kind = "uploaded_images.html"
                /\ resp'.file_urls = v.file_urls
           /\ sess' = sess
           /\ dir' = dir]_vars

\* /results redirected a session holding an empty list, files of another
\* session being in the directory.
C5_Witness ==
  /\ req.path = "/results"
  /\ resp.kind = "redirect /"
  /\ sess[req.sid] = WithKey(<<>>)
  /\ DOMAIN dir # {}

\* C6 as claimed: a POST / carrying files leaves the list it held before
\* followed by the URLs of the files it saved, and a list that held entries
\* loses them only by a visit to /predictions.
C6_UploadAppendsToEarlierList ==
  [][LET s == req'.sid
         before == sess[s].file_urls
         new == [i \in DOMAIN resp'.saved |-> Url(resp'.saved[i])]
     IN  /\ (IsIndexStep /\ req'.method = "POST" /\ resp'.saved # <<>>) =>
              sess'[s] = WithKey(before \o new)
         /\ (before # <<>> /\ sess'[s].file_urls = <<>>) =>
              req'.path = "/predictions"]_vars

\* C6 as amended: a POST / leaves in the list the URLs of the files that
\* very request saved, in order, and nothing else; every request to / in a
\* session that has the key drops the entries held before (GET / leaves the
\* list empty, and no key where there was none); the key is removed only by
\* that session's visit to /predictions; another session's list is never
\* touched.
C6_UploadReplacesList ==
  [][LET s == req'.sid
         carried == form_files(req'.files)
     IN  /\ (IsIndexStep /\ req'.method = "POST") =>
              /\ sess'[s].has_key
              /\ Len(sess'[s].file_urls) = Len(carried)
              /\ \A i \in DOMAIN carried :
                   LET name == NameOf(sess'[s].file_urls[i])
                   IN  /\ name[1] = carried[i].filename
                       /\ name \in DOMAIN dir'
                       /\ dir'[name] = carried[i].img
              /\ \A i, j \in DOMAIN carried :
                   i # j => sess'[s].file_urls[i] # sess'[s].file_urls[j]
         /\ (IsIndexStep /\ req'.method = "GET") =>
              sess'[s] = IF sess[s].has_key THEN WithKey(<<>>) ELSE NoKey
         /\ \A t \in Sessions :
              (sess[t].has_key /\ ~sess'[t].has_key) =>
                (req'.path = "/predictions" /\ t = s)
         /\ \A t \in Sessions \ {s} : sess'[t] = sess[t]]_vars

\* A second upload in a session whose list held an entry: the list holds
\* the second upload's URLs alone.
C6_Witness ==
  /\ req.path = "/" /\ req.method = "POST"
  /\ resp.unlinked # {}
  /\ Len(sess[req.sid].file_urls) = 2
  /\ Len(req.files) = 2

\* C7: /predictions in a session without the file_urls key ends in an
\* error: no prediction is computed, main_algorithm is not called, and the
\* session and the upload directory stay as they were.
C7_PredictionsWithoutKeyFails ==
  [][(req'.path = "/predictions" /\ ~sess[req'.sid].has_key) =>
       /\ resp'.kind = "error"
       /\ resp'.predictions = <<>>
       /\ resp'.runs = <<>>
       /\ sess' = sess
       /\ dir' = dir]_vars

\* /predictions failed in a session without the key while the directory
\* held files to predict on.
C7_Witness ==
  /\ req.path = "/predictions"
  /\ resp.kind = "error"
  /\ ~sess[req.sid].has_key
  /\ DOMAIN dir # {}

\* C8: /predictions runs over every file of the one shared directory,
\* whichever session put it there and whatever the requesting session's
\* list holds: the predictions are as many as the directory's files, so a
\* request that succeeds can return a number of predictions that differs
\* from the length of the session's list.
C8_PredictionsFollowSharedDirectory ==
  resp.kind = "predictions.html" =>
    /\ Range([i \in DOMAIN resp.runs |-> resp.runs[i].img_path]) = DOMAIN dir
    /\ Len(resp.predictions) = Cardinality(DOMAIN dir)

\* Session A's /predictions succeeded with fewer predictions than URLs.
C8_Witness ==
  /\ req.sid = "A"
  /\ resp.kind = "predictions.html"
  /\ Len(resp.predictions) < Len(resp.file_urls)

\* C9: with one session and nothing else touching the directory, whenever
\* the session has the file_urls key the list is as long as the directory
\* has files.
C9_ListLengthIsFileCount ==
  sess["A"].has_key => Len(sess["A"].file_urls) = Cardinality(DOMAIN dir)

\* Two files of one name were uploaded: two URLs, two files.
C9_Witness ==
  /\ sess["A"].has_key
  /\ Len(sess["A"].file_urls) = 2
  /\ \E n \in DOMAIN dir : n[2] = 1

\* C10: /results and /predictions leave the upload directory as it is, so
\* an uploaded file outlives them (and the popping of the session key); the
\* next request to / removes it: a file there before a request to / is
\* there afterwards only if that request saved it anew.
C10_FilesLiveUntilNextIndex ==
  [][/\ req'.path \in {"/results", "/predictions"} => dir' = dir
     /\ IsIndexStep =>
          \A n \in DOMAIN dir :
            n \in DOMAIN dir' => n \in Range(resp'.saved)
     /\ (IsIndexStep /\ Range(resp'.saved) = {}) => DOMAIN dir' = {}]_vars

\* After /predictions the key is gone and the files are still there.
C10_Witness ==
  /\ req.path = "/predictions"
  /\ resp.kind = "predictions.html"
  /\ ~sess[req.sid].has_key
  /\ Len(resp.file_urls) = Cardinality(DOMAIN dir)
  /\ DOMAIN dir # {}

====
